---- MODULE Spec2Model ----
(***************************************************************************)
(* Expense tracker: two ingress adapters (the SendGrid webhook of app.py   *)
(* and the IMAP poller of app_imap.py) feeding one pipeline:               *)
(* content selection -> OCR -> parse_expense_with_ai -> log_to_google_sheet*)
(*                                                                         *)
(* Text is a sequence of one-character strings.  A JSON / Python value is  *)
(* a record tagged by its type in field t.  Amounts of type float are kept *)
(* in hundredths (field c), amounts of type int as integers (field n).     *)
(***************************************************************************)
EXTENDS Integers, Sequences, FiniteSets, TLC

VARIABLES
    pText,      \* SpecParse: the text handed to parse_expense_with_ai
    pResp,      \* SpecParse: what the chat-completion service answers if asked
    pOut,       \* SpecParse: the outcome of the call, NotCalled before it
    lData,      \* SpecLog: the expense_data handed to log_to_google_sheet
    lEnv,       \* SpecLog: what the configuration and the sheet service do in the call
    lOut,       \* SpecLog: the outcome of the call, NotLogged before it
    program,    \* which entry point runs: "app" (webhook) or "app_imap" (poller)
    threads,    \* app.py: the request-handling threads of the HTTP server
    w,          \* app.py: the locals of sendgrid_webhook, per thread
    served,     \* app.py: number of requests received so far
    mailbox,    \* app_imap.py: the inbox, message id -> [state, content]
    im,         \* app_imap.py: the locals of process_emails and the main loop
    ledger,     \* the rows of sheet1 of "My expenses"
    files,      \* /tmp: filename -> content of the file, NoFile if absent
    today       \* date.today(): the day of the run, as a day number

(***************************************************************************)
(* Bounds                                                                  *)
(***************************************************************************)
MaxTextLen == 6         \* SpecParse: longest input text
MaxAttachments == 2     \* attachments per message
MaxRequests == 2        \* webhook requests received in a run
MaxMessages == 2        \* messages delivered to the inbox in a run

(***************************************************************************)
(* Python / JSON values                                                    *)
(***************************************************************************)
PyNone == [t |-> "none"]
Absent == [t |-> "absent"]          \* the key is not in the dict
JNull == PyNone                     \* json null loads as None
JInt(i) == [t |-> "int", n |-> i]
JFloat(cents) == [t |-> "float", c |-> cents]
JBool(v) == [t |-> "bool", b |-> v]
JStr(s) == [t |-> "str", s |-> s]
JList == [t |-> "list"]
JDict(a, v, c) == [t |-> "dict", amount |-> a, vendor |-> v, category |-> c]

\* bool(x): Python truthiness
Truthy(x) ==
    CASE x.t = "none" -> FALSE
      [] x.t = "bool" -> x.b
      [] x.t = "int" -> x.n # 0
      [] x.t = "float" -> x.c # 0
      [] x.t = "str" -> x.s # ""
      [] x.t = "dict" -> TRUE       \* a dict with keys
      [] OTHER -> TRUE

\* isinstance(x, (int, float)): bool is a subclass of int
IsInstanceIntFloat(x) == x.t \in {"int", "float", "bool"}

\* d.get(key)
dict_get(d, key) == IF d[key] = Absent THEN PyNone ELSE d[key]

\* float(x), in hundredths, for the values it accepts
float(x) ==
    CASE x.t = "int" -> JFloat(100 * x.n)
      [] x.t = "float" -> x
      [] x.t = "bool" -> JFloat(IF x.b THEN 100 ELSE 0)
      [] x = JStr("15") -> JFloat(1500)

(***************************************************************************)
(* Text                                                                    *)
(***************************************************************************)
IsSpace(ch) == ch = " "

RECURSIVE lstrip(_)
lstrip(s) == IF s # <<>> /\ IsSpace(Head(s)) THEN lstrip(Tail(s)) ELSE s

RECURSIVE rstrip(_)
rstrip(s) ==
    IF s # <<>> /\ IsSpace(s[Len(s)]) THEN rstrip(SubSeq(s, 1, Len(s) - 1)) ELSE s

\* str.strip()
strip(s) == rstrip(lstrip(s))

MinTextLen == 5

\* app.py:42  `not text_to_parse or len(text_to_parse.strip()) < 5`
SkipsLenOnly(text) == text = <<>> \/ Len(text) < MinTextLen
SkipsAI(text) == text = <<>> \/ Len(strip(text)) < MinTextLen

(***************************************************************************)
(* parse_expense_with_ai                                                   *)
(***************************************************************************)
ApiError == [kind |-> "api_error"]          \* chat.completions.create raises
InvalidJson == [kind |-> "invalid_json"]    \* the content is not JSON
Json(v) == [kind |-> "json", value |-> v]   \* the content is the JSON text of v

\* The exception the body of the try block raises on this response, "none" if none
ParseRaises(resp) ==
    CASE resp.kind = "api_error" -> "APIError"
      [] resp.kind = "invalid_json" -> "JSONDecodeError"
      [] resp.kind = "json" /\ resp.value.t # "dict" -> "AttributeError"
      [] OTHER -> "none"

\* `except Exception`
ParseCatchesJsonOnly(exc) == exc = "JSONDecodeError"
ParseCatches(exc) == TRUE

\* app.py:89-90
ValidatesPresenceOnly(d) ==
    /\ dict_get(d, "amount") # PyNone
    /\ Truthy(dict_get(d, "vendor"))
    /\ Truthy(dict_get(d, "category"))
ValidExpense(d) ==
    /\ dict_get(d, "amount") # PyNone
    /\ IsInstanceIntFloat(dict_get(d, "amount"))
    /\ Truthy(dict_get(d, "vendor"))
    /\ Truthy(dict_get(d, "category"))

Returned(v, n) == [result |-> v, calls |-> n, raised |-> "none"]
Raised(exc, n) == [result |-> PyNone, calls |-> n, raised |-> exc]

parse_expense_with_ai(text, resp) ==
    IF SkipsAI(text) THEN Returned(PyNone, 0)
    ELSE LET exc == ParseRaises(resp) IN
         IF exc # "none"
         THEN IF ParseCatches(exc) THEN Returned(PyNone, 1) ELSE Raised(exc, 1)
         ELSE IF ValidExpense(resp.value) THEN Returned(resp.value, 1)
              ELSE Returned(PyNone, 1)

(***************************************************************************)
(* log_to_google_sheet                                                     *)
(***************************************************************************)
\* str(date.today()): the ISO text of the day
IsoDates == <<"2025-01-01", "2025-01-02", "2025-01-03", "2025-01-04", "2025-01-05">>
str_date(day) == JStr(IsoDates[day])

\* What the spreadsheet service and the configuration do during one call:
\*   creds:  GOOGLE_APPLICATION_CREDENTIALS is unset, names an invalid file, or is ok
\*   open:   gc.open("My expenses") finds the sheet or raises SpreadsheetNotFound
\*   append: worksheet.append_row succeeds or raises
SheetEnvs == [creds : {"unset", "invalid", "ok"}, open : {"ok", "not_found"},
              append : {"ok", "error"}]
SheetEnv(creds, open, append) == [creds |-> creds, open |-> open, append |-> append]
SheetOk == SheetEnv("ok", "ok", "ok")
\* One environment per way a call can end
AdapterSheetEnvs ==
    {SheetOk, SheetEnv("unset", "ok", "ok"), SheetEnv("invalid", "ok", "ok"),
     SheetEnv("ok", "not_found", "ok"), SheetEnv("ok", "ok", "error")}

\* float(x) raises TypeError or ValueError on anything but a number or numeric text
CanFloat(x) == x.t \in {"int", "float", "bool"} \/ x = JStr("15")

\* expense_data.get(key, default)
dict_get_default(d, key, default) == IF d[key] = Absent THEN default ELSE d[key]

\* app.py:120-126
new_row(expense_data, day) ==
    [date |-> str_date(day),
     amount |-> float(expense_data.amount),
     vendor |-> dict_get_default(expense_data, "vendor", JStr("Unknown")),
     category |-> dict_get_default(expense_data, "category", JStr("Other"))]

\* The first exception the try block raises, "none" if it runs to `return True`
LogRaises(expense_data, env) ==
    CASE env.creds = "invalid" -> "CredentialsError"
      [] env.open = "not_found" -> "SpreadsheetNotFound"
      [] expense_data.t # "dict" -> "TypeError"
      [] expense_data.amount = Absent -> "KeyError"
      [] ~CanFloat(expense_data.amount) -> "TypeError"
      [] env.append = "error" -> "APIError"
      [] OTHER -> "none"

\* `except gspread.exceptions.SpreadsheetNotFound` and `except Exception`
LogCatchesNotFoundOnly(exc) == exc = "SpreadsheetNotFound"
LogCatches(exc) == TRUE

\* app.py:109  `if not creds_path`
CredsNeverMissing(env) == FALSE
CredsMissing(env) == env.creds = "unset"

\* app.py:128  worksheet.append_row(new_row): the row goes after the last row
AppendRowUnlessPresent(sheet, row) ==
    IF \E i \in DOMAIN sheet : sheet[i] = row THEN sheet ELSE Append(sheet, row)
InsertRowFirst(sheet, row) == <<row>> \o sheet
AppendRow(sheet, row) == Append(sheet, row)

LogResult(ret, sheet, exc, nauth, nopen, nappend) ==
    [ret |-> ret, sheet |-> sheet, raised |-> exc,
     auth |-> nauth, opens |-> nopen, appends |-> nappend]

log_to_google_sheet(expense_data, env, sheet, day) ==
    IF CredsMissing(env) THEN LogResult(FALSE, sheet, "none", 0, 0, 0)
    ELSE LET exc == LogRaises(expense_data, env)
             nauth == IF exc = "CredentialsError" THEN 0 ELSE 1
             nopen == IF exc = "CredentialsError" THEN 0 ELSE 1
             nappend == IF exc \in {"none", "APIError"} THEN 1 ELSE 0
         IN  IF exc = "none"
             THEN LogResult(TRUE, AppendRow(sheet, new_row(expense_data, day)),
                            "none", nauth, nopen, nappend)
             ELSE LogResult(FALSE, sheet, IF LogCatches(exc) THEN "none" ELSE exc,
                            nauth, nopen, nappend)

\* The state of a call of log_to_google_sheet: the rows before it, and its outcome
NotLogged == [done |-> FALSE, rows0 |-> 0, r |-> LogResult(FALSE, <<>>, "none", 0, 0, 0)]
Logged(rows0, r) == [done |-> TRUE, rows0 |-> rows0, r |-> r]

(***************************************************************************)
(* extract_text_from_image and the temporary files under /tmp              *)
(***************************************************************************)
NoFile == "no file"
TextOcr1 == <<"o", "c", "r", "-", "1">>
TextOcr2 == <<"o", "c", "r", "-", "2">>
TextPlain == <<"p", "l", "a", "i", "n">>
TextHtml == <<"<", "p", ">", "1", "5">>

\* pytesseract.image_to_string on the decoded image
image_to_string(content) ==
    CASE content = "receipt1" -> TextOcr1
      [] content = "receipt2" -> TextOcr2
      [] OTHER -> <<>>

\* Image.open raises on a missing or undecodable file
ImageOpenRaises(content) == content \in {NoFile, "corrupt"}

\* app.py:29-38: the text of the file at image_path, "" when OCR fails
extract_text_from_image(fs, image_path) ==
    IF ImageOpenRaises(fs[image_path]) THEN <<>> ELSE image_to_string(fs[image_path])

Filenames == {"a.png", "b.png", "doc.pdf"}
NoPath == "None"

Attachment(main, name, content) ==
    [maintype |-> main, filename |-> name, content |-> content]

AttachmentKinds ==
    {Attachment("image", "a.png", "receipt1"),
     Attachment("image", "b.png", "receipt2"),
     Attachment("image", "a.png", "corrupt"),
     Attachment("application", "doc.pdf", "pdf")}

RECURSIVE SeqsUpTo(_, _)
SeqsUpTo(S, n) ==
    IF n = 0 THEN {<<>>}
    ELSE LET shorter == SeqsUpTo(S, n - 1) IN
         shorter \cup {Append(s, x) : s \in {q \in shorter : Len(q) = n - 1}, x \in S}

\* The attachments of a message: up to MaxAttachments different ones, in any order
NoRepeat(s) == \A i, j \in DOMAIN s : s[i] = s[j] => i = j
AttachmentLists == {s \in SeqsUpTo(AttachmentKinds, MaxAttachments) : NoRepeat(s)}

\* What the chat-completion service answers in the adapters' runs
CoffeeRecord == JDict(JFloat(1500), JStr("Coffee Shop"), JStr("Food"))
TrueAmountRecord == JDict(JBool(TRUE), JStr("Uber Eats"), JStr("Food"))
TextAmountRecord == JDict(JStr("15"), JStr("Book"), JStr("Shopping"))
NullRecord == JDict(JNull, JNull, JNull)
AdapterResponses ==
    {ApiError, InvalidJson, Json(NullRecord), Json(TextAmountRecord),
     Json(CoffeeRecord), Json(TrueAmountRecord)}

\* The plain and HTML bodies of a message: both, HTML only, or neither
Bodies == {<<TextPlain, TextHtml>>, <<<<>>, TextHtml>>, <<<<>>, <<>>>>}

\* `body_plain if body_plain else body_html`
BodyText(plain, html) == IF plain # <<>> THEN plain ELSE html

\* app.py:179-181, app_imap.py:250-251
SelectText(input_text, plain, html) ==
    IF input_text # <<>> THEN input_text ELSE BodyText(plain, html)

(***************************************************************************)
(* app.py: sendgrid_webhook                                                *)
(***************************************************************************)
AllThreads == {1, 2}

\* The form field `attachments` is text; int() converts it or raises ValueError
CountTexts == <<"0", "1", "2", "3", "4">>
CountText(n) == CountTexts[n + 1]
IntRaises(s) == \A i \in DOMAIN CountTexts : CountTexts[i] # s
int(s) == (CHOOSE i \in DOMAIN CountTexts : CountTexts[i] = s) - 1

Request(count, atts, text, html) ==
    [count |-> count, atts |-> atts, text |-> text, html |-> html]
NoRequest == Request("", <<>>, <<>>, <<>>)
WebhookRequests ==
    {Request("abc", <<>>, TextPlain, <<>>)}
        \cup {Request(CountText(Len(a)), a, b[1], b[2]) : a \in AttachmentLists, b \in Bodies}

\* app.py:160
IsImageUpload(att) == att.filename # "" /\ att.maintype = "image"

\* app.py:157-173: the index of the first image among attachment1..attachmentN, 0 if none
FirstImage(req) ==
    LET n == int(req.count)
        idx == {i \in 1..n : i <= Len(req.atts) /\ IsImageUpload(req.atts[i])}
    IN  IF idx = {} THEN 0 ELSE CHOOSE i \in idx : \A j \in idx : i <= j

\* `except Exception` of the handler (app.py:199)
WebhookCatchesNothing(exc) == FALSE
WebhookCatches(exc) == TRUE

\* `except Exception` around os.remove (app.py:211)
CleanupCatches(exc) == TRUE

\* app.py:190: where the handler goes after the Structurer returned
WebhookAlwaysLogs(parsed) == "log"
WebhookAfterParse(parsed) == IF Truthy(parsed) THEN "log" ELSE "finally"

WLocals(pc, req) ==
    [pc |-> pc, req |-> req, image |-> 0, input_text |-> <<>>, cleanup_path |-> NoPath,
     called |-> FALSE, fed |-> <<>>, parsed |-> PyNone, calls |-> 0,
     log |-> "not called", exc |-> "none", rows0 |-> 0, status |-> 0, body |-> "",
     removed |-> "not tried"]

\* A POST arrives: app.py:142-167, up to the point where the first image is to be saved
Receive(t, req) ==
    /\ program = "app"
    /\ t \in threads
    /\ w[t].pc \in {"idle", "responded"}
    /\ served < MaxRequests
    /\ served' = served + 1
    /\ LET fresh == [WLocals("parse", req) EXCEPT !.rows0 = Len(ledger)] IN
       w' = [w EXCEPT ![t] =
                IF IntRaises(req.count)
                THEN [fresh EXCEPT !.pc = "finally", !.exc = "ValueError"]
                ELSE IF FirstImage(req) = 0 THEN fresh
                ELSE [fresh EXCEPT !.pc = "save", !.image = FirstImage(req),
                         !.cleanup_path = req.atts[FirstImage(req)].filename]]
    /\ UNCHANGED <<pText, pResp, pOut, lData, lEnv, lOut, program, threads, mailbox, im, ledger, files, today>>

\* app.py:168  attachment.save(image_path)
Save(t, ok) ==
    /\ program = "app"
    /\ w[t].pc = "save"
    /\ IF ok
       THEN /\ files' = [files EXCEPT ![w[t].cleanup_path] = w[t].req.atts[w[t].image].content]
            /\ w' = [w EXCEPT ![t].pc = "ocr"]
       ELSE /\ files' = files
            /\ w' = [w EXCEPT ![t].pc = "finally", ![t].exc = "OSError"]
    /\ UNCHANGED <<pText, pResp, pOut, lData, lEnv, lOut, program, threads, served, mailbox, im, ledger, today>>

\* app.py:172-173
Ocr(t) ==
    /\ program = "app"
    /\ w[t].pc = "ocr"
    /\ w' = [w EXCEPT ![t].pc = "parse",
                      ![t].input_text = extract_text_from_image(files, w[t].cleanup_path)]
    /\ UNCHANGED <<pText, pResp, pOut, lData, lEnv, lOut, program, threads, served, mailbox, im, ledger, files, today>>

\* app.py:179-197: body fallback and the Structurer call
Parse(t, resp) ==
    /\ program = "app"
    /\ w[t].pc = "parse"
    /\ LET text == SelectText(w[t].input_text, w[t].req.text, w[t].req.html)
           out == parse_expense_with_ai(text, resp)
       IN  w' = [w EXCEPT ![t].input_text = text, ![t].called = TRUE, ![t].fed = text,
                          ![t].parsed = out.result, ![t].calls = out.calls,
                          ![t].exc = out.raised,
                          ![t].pc = IF out.raised # "none" THEN "finally"
                                    ELSE WebhookAfterParse(out.result)]
    /\ UNCHANGED <<pText, pResp, pOut, lData, lEnv, lOut, program, threads, served, mailbox, im, ledger, files, today>>

\* app.py:191-195
Log(t, env) ==
    /\ program = "app"
    /\ w[t].pc = "log"
    /\ LET r == log_to_google_sheet(w[t].parsed, env, ledger, today) IN
       /\ ledger' = r.sheet
       /\ w' = [w EXCEPT ![t].log = IF r.ret THEN "true" ELSE "false",
                         ![t].exc = r.raised, ![t].pc = "finally"]
    /\ UNCHANGED <<pText, pResp, pOut, lData, lEnv, lOut, program, threads, served, mailbox, im, files, today>>

\* app.py:205-215: the finally block, then the response
Respond(t, removeOk) ==
    /\ program = "app"
    /\ w[t].pc = "finally"
    /\ LET exists == w[t].cleanup_path # NoPath /\ files[w[t].cleanup_path] # NoFile
           caught == w[t].exc = "none" \/ WebhookCatches(w[t].exc)
           cleaned == ~exists \/ removeOk \/ CleanupCatches("OSError")
           ok == caught /\ cleaned
       IN  /\ exists \/ removeOk
           /\ files' = IF exists /\ removeOk
                       THEN [files EXCEPT ![w[t].cleanup_path] = NoFile] ELSE files
           /\ w' = [w EXCEPT ![t].pc = "responded",
                             ![t].removed = IF ~exists THEN "not tried"
                                            ELSE IF removeOk THEN "removed" ELSE "failed",
                             ![t].status = IF ok THEN 200 ELSE 500,
                             ![t].body = IF ok THEN "received" ELSE "Internal Server Error"]
    /\ UNCHANGED <<pText, pResp, pOut, lData, lEnv, lOut, program, threads, served, mailbox, im, ledger, today>>

(***************************************************************************)
(* app_imap.py: process_emails and the main loop                           *)
(***************************************************************************)
MessageIds == 1..MaxMessages

UnknownContent == [t |-> "unknown"]
Message(subject, multipart, plain, html, atts) ==
    [t |-> "message", subject |-> subject, multipart |-> multipart,
     plain |-> plain, html |-> html, atts |-> atts]

\* A message without a Subject header, multipart messages with any bodies and
\* attachments, and single-part messages (one text/plain, text/html or other body)
NoSubjectMessage == Message(FALSE, FALSE, TextPlain, <<>>, <<>>)
ImapMessages ==
    {NoSubjectMessage}
        \cup {Message(TRUE, TRUE, b[1], b[2], a) : a \in AttachmentLists, b \in Bodies}
        \cup {Message(TRUE, FALSE, TextPlain, <<>>, <<>>),
              Message(TRUE, FALSE, <<>>, TextHtml, <<>>),
              Message(TRUE, FALSE, <<>>, <<>>, <<>>)}

Entry(state, content) == [state |-> state, content |-> content]

\* mail.search(None, "UNSEEN"): the ids of the unseen messages, ascending
RECURSIVE UnseenFrom(_, _)
UnseenFrom(box, id) ==
    IF id > MaxMessages THEN <<>>
    ELSE IF box[id].state = "unseen" THEN <<id>> \o UnseenFrom(box, id + 1)
    ELSE UnseenFrom(box, id + 1)
SearchAll(box) == [i \in 1..Cardinality({id \in MessageIds : box[id].state # "absent"}) |-> i]
Unseen(box) == UnseenFrom(box, 1)

\* app_imap.py:181  decode_header(msg["Subject"]) raises TypeError without the header
HeaderRaises(msg) == IF msg.subject THEN "none" ELSE "TypeError"

\* app_imap.py:211-213
IsImageAttachment(att) == att.maintype = "image" /\ att.filename # ""

\* app_imap.py:194-235: msg.walk() over the attachments from the k-th on.  oks[k] tells
\* whether writing the k-th attachment to /tmp succeeds.  acc is the locals so far,
\* with the names of the files written (made).
NoParts(fs) ==
    [input_text |-> <<>>, cleanup_path |-> NoPath, fs |-> fs, saves |-> "ok", made |-> {}]

RECURSIVE WalkParts(_, _, _, _)
WalkParts(atts, oks, k, acc) ==
    IF k > Len(atts) THEN acc
    ELSE IF ~IsImageAttachment(atts[k]) THEN WalkParts(atts, oks, k + 1, acc)
    ELSE LET name == atts[k].filename
             fs == IF oks[k] THEN [acc.fs EXCEPT ![name] = atts[k].content] ELSE acc.fs
             text == IF oks[k] THEN extract_text_from_image(fs, name) ELSE <<>>
         IN  WalkParts(atts, oks, k + 1,
                       [input_text |-> text, cleanup_path |-> name, fs |-> fs,
                        saves |-> IF oks[k] THEN acc.saves ELSE "failed",
                        made |-> IF oks[k] THEN acc.made \cup {name} ELSE acc.made])

\* There is no `except` on the per-message try (app_imap.py:168-274), only `finally`
MessageCatches(exc) == FALSE

\* `except imaplib.IMAP4.error` and `except Exception` (app_imap.py:276-279)
OuterCatchesImapOnly(exc) == exc \in {"IMAP4.error", "IMAP4.abort"}
OuterCatches(exc) == TRUE

\* app_imap.py:257-264: what follows the Structurer's return: the Ledger Writer and
\* then the \Seen flag ("log"), or the \Seen flag alone ("store")
StoreOnlyIfParsed(parsed) == IF Truthy(parsed) THEN "log" ELSE "cleanup"
ImapAfterParse(parsed) == IF Truthy(parsed) THEN "log" ELSE "store"

\* mail.close() is legal only in the SELECTED state
CloseRaises(mail) == mail # "selected"

MessageLocals ==
    [cur |-> 0, input_text |-> <<>>, cleanup_path |-> NoPath, called |-> FALSE,
     fed |-> <<>>, parsed |-> PyNone, calls |-> 0,
     log |-> "not called", rows0 |-> 0, ran |-> FALSE, saves |-> "ok",
     order |-> <<>>, removed |-> "not tried", made |-> {}]

CycleLocals(creds) ==
    [pc |-> "sleep", creds |-> creds, mail |-> "None", searched |-> FALSE,
     found |-> <<>>, batch |-> <<>>, attempted |-> {}, exc |-> "none",
     how |-> "none", m |-> MessageLocals]

ImapFrame == <<pText, pResp, pOut, lData, lEnv, lOut, program, threads, w, served, today>>

\* app_imap.py:135-151: credentials, connect, login, select
StartCycle(outcome) ==
    /\ program = "app_imap"
    /\ im.pc = "sleep"
    /\ LET c == CycleLocals(im.creds) IN
       IF ~im.creds
       THEN /\ outcome = "ok"
            /\ im' = [c EXCEPT !.pc = "returned", !.how = "no credentials"]
       ELSE im' =
              CASE outcome = "connect_fails" ->
                     [c EXCEPT !.pc = "outer_finally", !.exc = "OSError"]
                [] outcome = "login_fails" ->
                     [c EXCEPT !.pc = "outer_finally", !.exc = "IMAP4.error",
                               !.mail = "nonauth"]
                [] outcome = "select_fails" ->
                     [c EXCEPT !.pc = "outer_finally", !.exc = "IMAP4.abort",
                               !.mail = "auth"]
                [] OTHER -> [c EXCEPT !.pc = "search", !.mail = "selected"]
    /\ UNCHANGED <<ImapFrame, mailbox, ledger, files>>

\* app_imap.py:154-160
Search(status) ==
    /\ program = "app_imap"
    /\ im.pc = "search"
    /\ im' = CASE status = "OK" ->
                    [im EXCEPT !.pc = "fetch", !.searched = TRUE,
                               !.found = Unseen(mailbox), !.batch = Unseen(mailbox)]
               [] status = "NO" ->
                    [im EXCEPT !.pc = "outer_finally", !.how = "search failed"]
               [] OTHER -> [im EXCEPT !.pc = "outer_finally", !.exc = "IMAP4.abort"]
    /\ UNCHANGED <<ImapFrame, mailbox, ledger, files>>

\* app_imap.py:170-173: where control goes after mail.fetch: on to the message's
\* content, back to the head of the loop (`continue`) when the status is not OK, or
\* out of the loop when the call raised
FetchFallsThrough(status) ==
    CASE status = "OK" -> "content"
      [] status = "NO" -> "pipeline"
      [] OTHER -> "outer_finally"
AfterFetch(status) ==
    CASE status = "OK" -> "content"
      [] status = "NO" -> "fetch"
      [] OTHER -> "outer_finally"

\* app_imap.py:162-173: the next id of the batch and its fetch; msgs are the messages
\* the inbox may hold.  The mailbox changes a flag on mail.store only.
FetchFrom(status, msgs) ==
    /\ program = "app_imap"
    /\ im.pc = "fetch"
    /\ im.batch # <<>>
    /\ LET id == Head(im.batch)
           next == [im EXCEPT !.batch = Tail(im.batch),
                              !.attempted = im.attempted \cup {id},
                              !.m = [MessageLocals EXCEPT !.cur = id,
                                                         !.rows0 = Len(ledger)]]
           pc == AfterFetch(status)
       IN  /\ IF status = "OK"
              THEN \* the text of a message is fixed from its first fetch on
                   \E msg \in IF mailbox[id].content = UnknownContent
                              THEN msgs ELSE {mailbox[id].content} :
                      mailbox' = [mailbox EXCEPT ![id].content = msg]
              ELSE mailbox' = mailbox
           /\ im' = [next EXCEPT !.pc = pc,
                                 !.exc = IF pc = "outer_finally"
                                         THEN "IMAP4.abort" ELSE "none"]
    /\ UNCHANGED <<ImapFrame, ledger, files>>

Fetch(status) == FetchFrom(status, ImapMessages)

\* app_imap.py:162: the batch is exhausted
BatchDone ==
    /\ program = "app_imap"
    /\ im.pc = "fetch"
    /\ im.batch = <<>>
    /\ im' = [im EXCEPT !.pc = "outer_finally", !.how = "batch done", !.m = MessageLocals]
    /\ UNCHANGED <<ImapFrame, mailbox, ledger, files>>

\* app_imap.py:175-251: headers, bodies, attachments, content selection
Content ==
    /\ program = "app_imap"
    /\ im.pc = "content"
    /\ LET msg == mailbox[im.m.cur].content IN
       \E oks \in [1..Len(msg.atts) -> BOOLEAN] :
          IF HeaderRaises(msg) # "none"
          THEN /\ files' = files
               /\ im' = [im EXCEPT !.pc = "cleanup", !.exc = HeaderRaises(msg)]
          ELSE LET walked == IF msg.multipart
                             THEN WalkParts(msg.atts, oks, 1, NoParts(files))
                             ELSE NoParts(files)
                   text == SelectText(walked.input_text, msg.plain, msg.html)
               IN  /\ files' = walked.fs
                   /\ im' = [im EXCEPT !.m.input_text = text,
                                       !.m.cleanup_path = walked.cleanup_path,
                                       !.m.saves = walked.saves,
                                       !.m.made = walked.made,
                                       !.m.ran = TRUE,
                                       !.pc = "pipeline"]
    /\ UNCHANGED <<ImapFrame, mailbox, ledger>>

\* app_imap.py:253-265: the Structurer, the Ledger Writer and the \Seen flag, in the
\* order of the code; m.order lists the calls made
Pipeline ==
    /\ program = "app_imap"
    /\ im.pc = "pipeline"
    /\ LET text == im.m.input_text
           called == text # <<>>
       IN
       \E resp \in IF called THEN AdapterResponses ELSE {ApiError} :
       LET out == IF called THEN parse_expense_with_ai(text, resp) ELSE Returned(PyNone, 0)
           after == IF ~called THEN "store"
                    ELSE IF out.raised # "none" THEN "cleanup"
                    ELSE ImapAfterParse(out.result)
           logs == after = "log"
       IN
       \E env \in IF logs THEN AdapterSheetEnvs ELSE {SheetOk} :
       LET r == IF logs THEN log_to_google_sheet(out.result, env, ledger, today)
                ELSE LogResult(FALSE, ledger, "none", 0, 0, 0)
           raised == IF out.raised # "none" THEN out.raised ELSE r.raised
           stores == after \in {"log", "store"} /\ raised = "none"
       IN  /\ ledger' = r.sheet
           /\ mailbox' = IF stores
                         THEN [mailbox EXCEPT ![im.m.cur] = Entry("seen", UnknownContent)]
                         ELSE mailbox
           /\ im' = [im EXCEPT !.pc = "cleanup", !.exc = raised,
                               !.m.called = called,
                               !.m.fed = IF called THEN text ELSE <<>>,
                               !.m.parsed = out.result, !.m.calls = out.calls,
                               !.m.log = IF ~logs THEN "not called"
                                         ELSE IF r.ret THEN "true" ELSE "false",
                               !.m.order = (IF called THEN <<"parse">> ELSE <<>>)
                                           \o (IF logs THEN <<"log">> ELSE <<>>)
                                           \o (IF stores THEN <<"store">> ELSE <<>>)]
    /\ UNCHANGED <<ImapFrame, files>>

\* app_imap.py:267-274: the finally block of one message, then on to the next message
\* or, with an exception in flight, out of the loop
Cleanup(removeOk) ==
    /\ program = "app_imap"
    /\ im.pc = "cleanup"
    /\ LET exists == im.m.cleanup_path # NoPath /\ files[im.m.cleanup_path] # NoFile
           inflight == im.exc # "none" /\ ~MessageCatches(im.exc)
       IN  /\ exists \/ removeOk
           /\ files' = IF exists /\ removeOk
                       THEN [files EXCEPT ![im.m.cleanup_path] = NoFile] ELSE files
           /\ im' = [im EXCEPT !.pc = IF inflight THEN "outer_finally" ELSE "fetch",
                               !.exc = IF inflight THEN im.exc ELSE "none",
                               !.m.removed = IF ~exists THEN "not tried"
                                             ELSE IF removeOk THEN "removed" ELSE "failed"]
    /\ UNCHANGED <<ImapFrame, mailbox, ledger>>

\* app_imap.py:276-288: the except clauses and the finally block of process_emails
Logout ==
    /\ program = "app_imap"
    /\ im.pc = "outer_finally"
    /\ im' = [im EXCEPT !.pc = IF im.exc = "none" \/ OuterCatches(im.exc)
                               THEN "returned" ELSE "crashed",
                        !.m = MessageLocals,
                        !.mail = IF im.mail = "None" \/ CloseRaises(im.mail)
                                 THEN im.mail ELSE "logout"]
    /\ UNCHANGED <<ImapFrame, mailbox, ledger, files>>

\* app_imap.py:294-297: the main loop sleeps and polls again
Sleep ==
    /\ program = "app_imap"
    /\ im.pc = "returned"
    /\ im' = [im EXCEPT !.pc = "sleep"]
    /\ UNCHANGED <<ImapFrame, mailbox, ledger, files>>

\* A new message arrives in the inbox, with the next id
Deliver ==
    /\ program = "app_imap"
    /\ \E id \in MessageIds :
          /\ mailbox[id].state = "absent"
          /\ \A j \in MessageIds : j < id => mailbox[j].state # "absent"
          /\ mailbox' = [mailbox EXCEPT ![id].state = "unseen"]
    /\ UNCHANGED <<ImapFrame, im, ledger, files>>

(***************************************************************************)
(* SpecParse: parse_expense_with_ai on every text and every response       *)
(***************************************************************************)
ParseTexts == SeqsUpTo({" ", "x"}, MaxTextLen)

Amounts ==
    {Absent, JNull, JInt(-5), JInt(0), JInt(15), JFloat(1850), JStr("15"),
     JBool(TRUE), JBool(FALSE)}
Vendors == {Absent, JNull, JStr(""), JStr("Coffee Shop")}
CategoryValues == {Absent, JNull, JStr(""), JStr("Food"), JStr("Gadgets")}

ParseResponses ==
    {ApiError, InvalidJson, Json(JList), Json(JNull)}
        \cup {Json(JDict(a, v, c)) : a \in Amounts, v \in Vendors, c \in CategoryValues}

NotCalled == [result |-> PyNone, calls |-> 0, raised |-> "not called"]

vars == <<pText, pResp, pOut, lData, lEnv, lOut, program, threads, w, served, mailbox, im, ledger, files, today>>

ParseInit ==
    /\ pText \in ParseTexts
    /\ pResp \in ParseResponses
    /\ pOut = NotCalled
    /\ lData = PyNone
    /\ lEnv = SheetOk
    /\ lOut = NotLogged
    /\ program = "none"
    /\ threads = {}
    /\ w = [t \in AllThreads |-> WLocals("idle", NoRequest)]
    /\ served = 0
    /\ mailbox = [id \in MessageIds |-> Entry("absent", UnknownContent)]
    /\ im = CycleLocals(FALSE)
    /\ ledger = <<>>
    /\ files = [f \in Filenames |-> NoFile]
    /\ today = 1

ParseCall ==
    /\ pOut = NotCalled
    /\ pOut' = parse_expense_with_ai(pText, pResp)
    /\ UNCHANGED <<pText, pResp, lData, lEnv, lOut, program, threads, w, served, mailbox, im, ledger, files, today>>

SpecParse == ParseInit /\ [][ParseCall]_vars

(***************************************************************************)
(* SpecLog: log_to_google_sheet on every record, in every environment,     *)
(* on an empty sheet and on a sheet that holds rows                        *)
(***************************************************************************)
LogAmounts == {Absent, JNull, JInt(15), JFloat(1500), JBool(TRUE), JStr("15")}
LogDatas ==
    {PyNone}
        \cup {JDict(a, v, c) : a \in LogAmounts, v \in {Absent, JStr("Coffee Shop")},
                                c \in {Absent, JStr("Food")}}
CoffeeRow == new_row(CoffeeRecord, 1)
LogSheets == {<<>>, <<CoffeeRow>>, <<CoffeeRow, CoffeeRow>>}

LogInit ==
    /\ lData \in LogDatas
    /\ lEnv \in SheetEnvs
    /\ lOut = NotLogged
    /\ ledger \in LogSheets
    /\ today \in {1, 2}
    /\ pText = <<>>
    /\ pResp = ApiError
    /\ pOut = NotCalled
    /\ program = "none"
    /\ threads = {}
    /\ w = [t \in AllThreads |-> WLocals("idle", NoRequest)]
    /\ served = 0
    /\ mailbox = [id \in MessageIds |-> Entry("absent", UnknownContent)]
    /\ im = CycleLocals(FALSE)
    /\ files = [f \in Filenames |-> NoFile]

LogCall ==
    /\ ~lOut.done
    /\ LET r == log_to_google_sheet(lData, lEnv, ledger, today) IN
       /\ lOut' = Logged(Len(ledger), r)
       /\ ledger' = r.sheet
    /\ UNCHANGED <<pText, pResp, pOut, lData, lEnv, program, threads, w, served,
                   mailbox, im, files, today>>

SpecLog == LogInit /\ [][LogCall]_vars

(***************************************************************************)
(* Spec: one of the two programs runs against the sheet                    *)
(***************************************************************************)
NoFiles == [f \in Filenames |-> NoFile]
EmptyMailbox == [id \in MessageIds |-> Entry("absent", UnknownContent)]
NoHandlers == [t \in AllThreads |-> WLocals("idle", NoRequest)]

Init ==
    /\ program \in {"app", "app_imap"}
    /\ threads = {1}
    /\ w = NoHandlers
    /\ served = 0
    /\ mailbox = EmptyMailbox
    /\ im \in {CycleLocals(c) : c \in IF program = "app_imap" THEN BOOLEAN ELSE {TRUE}}
    /\ ledger = <<>>
    /\ files = NoFiles
    /\ today = 1
    /\ pText = <<>>
    /\ pResp = ApiError
    /\ pOut = NotCalled
    /\ lData = PyNone
    /\ lEnv = SheetOk
    /\ lOut = NotLogged

\* The steps of the webhook's request handlers
NextWebhook ==
    \/ \E t \in AllThreads, req \in WebhookRequests : Receive(t, req)
    \/ \E t \in AllThreads, ok \in BOOLEAN : Save(t, ok)
    \/ \E t \in AllThreads : Ocr(t)
    \/ \E t \in AllThreads, resp \in AdapterResponses : Parse(t, resp)
    \/ \E t \in AllThreads, env \in AdapterSheetEnvs : Log(t, env)
    \/ \E t \in AllThreads, removeOk \in BOOLEAN : Respond(t, removeOk)

\* The steps of the poller, and the arrival of mail
NextImap ==
    \/ \E outcome \in {"connect_fails", "login_fails", "select_fails", "ok"} :
          StartCycle(outcome)
    \/ \E status \in {"OK", "NO", "raise"} : Search(status)
    \/ \E status \in {"OK", "NO", "raise"} : Fetch(status)
    \/ BatchDone
    \/ Content
    \/ Pipeline
    \/ \E removeOk \in BOOLEAN : Cleanup(removeOk)
    \/ Logout
    \/ Sleep
    \/ Deliver

Next == NextWebhook \/ NextImap

Spec == Init /\ [][Next]_vars

(***************************************************************************)
(* SpecConc: the HTTP server runs sendgrid_webhook on two threads at once  *)
(***************************************************************************)
InitConc ==
    /\ program = "app"
    /\ threads = AllThreads
    /\ w = NoHandlers
    /\ served = 0
    /\ mailbox = EmptyMailbox
    /\ im = CycleLocals(TRUE)
    /\ ledger = <<>>
    /\ files = NoFiles
    /\ today = 1
    /\ pText = <<>>
    /\ pResp = ApiError
    /\ pOut = NotCalled
    /\ lData = PyNone
    /\ lEnv = SheetOk
    /\ lOut = NotLogged

\* The requests of the concurrent runs: at most one attachment, both bodies present
ConcRequests == {r \in WebhookRequests : Len(r.atts) <= 1 /\ r.text = TextPlain}

NextConc ==
    \/ \E t \in AllThreads, req \in ConcRequests : Receive(t, req)
    \/ \E t \in AllThreads, ok \in BOOLEAN : Save(t, ok)
    \/ \E t \in AllThreads : Ocr(t)
    \/ \E t \in AllThreads, resp \in AdapterResponses : Parse(t, resp)
    \/ \E t \in AllThreads, env \in AdapterSheetEnvs : Log(t, env)
    \/ \E t \in AllThreads, removeOk \in BOOLEAN : Respond(t, removeOk)

SpecConc == InitConc /\ [][NextConc]_vars

(***************************************************************************)
(* SpecLive: the poller runs forever.  The main loop is one thread that    *)
(* always takes its next step; a server that is asked again and again      *)
(* accepts the login, answers the search and delivers each message it is   *)
(* asked for.                                                              *)
(***************************************************************************)
InitImap ==
    /\ program = "app_imap"
    /\ threads = {}
    /\ w = NoHandlers
    /\ served = 0
    /\ mailbox = EmptyMailbox
    /\ im \in {CycleLocals(c) : c \in BOOLEAN}
    /\ ledger = <<>>
    /\ files = NoFiles
    /\ today = 1
    /\ pText = <<>>
    /\ pResp = ApiError
    /\ pOut = NotCalled
    /\ lData = PyNone
    /\ lEnv = SheetOk
    /\ lOut = NotLogged

\* The messages of the endless runs: at most one attachment each
LiveMessages == {msg \in ImapMessages : Len(msg.atts) <= 1}

\* The steps of the poller itself
ImapStep ==
    \/ \E outcome \in {"connect_fails", "login_fails", "select_fails", "ok"} :
          StartCycle(outcome)
    \/ \E status \in {"OK", "NO", "raise"} : Search(status)
    \/ \E status \in {"OK", "NO", "raise"} : FetchFrom(status, LiveMessages)
    \/ BatchDone
    \/ Content
    \/ Pipeline
    \/ \E removeOk \in BOOLEAN : Cleanup(removeOk)
    \/ Logout
    \/ Sleep

NextLive == ImapStep \/ Deliver

\* The server delivers message id
FetchOk(id) == im.batch # <<>> /\ Head(im.batch) = id /\ FetchFrom("OK", LiveMessages)

SpecLive ==
    /\ InitImap
    /\ [][NextLive]_vars
    /\ WF_vars(ImapStep)
    /\ SF_vars(StartCycle("ok"))
    /\ SF_vars(Search("OK"))
    /\ \A id \in MessageIds : SF_vars(FetchOk(id))

(***************************************************************************)
(* Claims about parse_expense_with_ai, under SpecParse                     *)
(***************************************************************************)
ParseReturned == pOut # NotCalled
ModelAsked == ParseReturned /\ pOut.calls = 1

\* The schema as the specification states it
SpecNumeric(v) == v.t \in {"int", "float"}
SpecNonEmpty(v) == v.t = "str" /\ v.s # ""
SpecAccepts(resp) ==
    /\ resp.kind = "json"
    /\ resp.value.t = "dict"
    /\ SpecNumeric(resp.value.amount)
    /\ SpecNonEmpty(resp.value.vendor)
    /\ SpecNonEmpty(resp.value.category)

\* C4: for every model response, the record is returned if and only if the response
\* is a JSON object whose amount is of numeric type and whose vendor and category are
\* non-empty; every other response, a boolean amount included, gives "not an expense";
\* a returned record is the response's amount, vendor and category.
C4_RecordIffSchema ==
    ModelAsked =>
        /\ SpecAccepts(pResp) => pOut.result = pResp.value
        /\ ~SpecAccepts(pResp) => pOut.result = PyNone

\* The number an accepted amount stands for, in hundredths
AmountValue(v) ==
    CASE v.t = "int" -> 100 * v.n
      [] v.t = "float" -> v.c
      [] v.t = "bool" -> IF v.b THEN 100 ELSE 0
      [] OTHER -> 0

\* C6: every record accepted as valid has an amount strictly greater than zero.
C6_AmountPositive ==
    (ParseReturned /\ pOut.result # PyNone) => AmountValue(pOut.result.amount) > 0

\* The closed category vocabulary of the prompt
Categories == {"Food", "Transport", "Shopping", "Other"}

\* C7: every record accepted as valid has a category of the fixed closed set.
C7_CategoryInClosedSet ==
    (ParseReturned /\ pOut.result # PyNone) =>
        /\ pOut.result.category.t = "str"
        /\ pOut.result.category.s \in Categories

\* The length of the text between its first and its last non-blank character
NonBlank(s) == {i \in 1..Len(s) : s[i] # " "}
TrimmedLen(s) ==
    IF NonBlank(s) = {} THEN 0
    ELSE (CHOOSE i \in NonBlank(s) : \A j \in NonBlank(s) : j <= i)
           - (CHOOSE i \in NonBlank(s) : \A j \in NonBlank(s) : i <= j) + 1

\* C8: a text that is empty or whose trimmed length is below 5 gives "not an expense"
\* with no model call; every other text costs exactly one model call.
C8_ShortTextNoModelCall ==
    ParseReturned =>
        IF pText = <<>> \/ TrimmedLen(pText) < 5
        THEN pOut.result = PyNone /\ pOut.calls = 0
        ELSE pOut.calls = 1

\* C8 witness: a text of five or more characters, blank-padded around fewer than five,
\* was refused without a model call.
C8_Witness ==
    /\ ParseReturned
    /\ Len(pText) >= 5
    /\ TrimmedLen(pText) \in 1..4
    /\ pOut.calls = 0
    /\ pOut.result = PyNone

\* The failures the specification normalises: a failed call, invalid JSON, a JSON
\* value that is no object, an object that violates the schema
SpecFailure(resp) == ~SpecAccepts(resp)

\* C10: parse_expense_with_ai never raises, and every failure (failed model call,
\* invalid JSON, non-object JSON, schema violation) gives the same "not an expense".
C10_FailuresNormalised ==
    ModelAsked =>
        /\ pOut.raised = "none"
        /\ SpecFailure(pResp) => pOut = Returned(PyNone, 1)

(***************************************************************************)
(* Claims about the two adapters, under Spec                               *)
(***************************************************************************)
Polling == program = "app_imap"
Seen(id) == mailbox[id].state = "seen"

\* C1: an exception raised while one message of the batch is processed does not end
\* the batch: when process_emails returns after a search, every id the search found
\* has been fetched in that cycle (a lost connection, IMAP4.abort, set aside).
C1_BatchSurvivesException ==
    (Polling /\ im.pc = "returned" /\ im.searched /\ im.exc # "IMAP4.abort") =>
        \A i \in 1..Len(im.found) : im.found[i] \in im.attempted

\* The message whose processing the loop body has carried through the pipeline
PipelineRan == Polling /\ im.m.ran /\ im.pc \in {"cleanup", "fetch", "outer_finally"}

\* C2: every message that was fetched and run through the pipeline is marked \Seen
\* in that cycle, whatever the Structurer and the Ledger Writer returned.
C2_SeenRegardlessOfOutcome == PipelineRan => Seen(im.m.cur)

\* C2 witness: a message whose record the Ledger Writer failed to append is \Seen.
C2_Witness ==
    /\ PipelineRan
    /\ im.m.parsed # PyNone
    /\ im.m.log = "false"
    /\ Seen(im.m.cur)

\* C3: every POST ends with HTTP 200 and the JSON acknowledgement.
C3_AlwaysAcknowledged ==
    \A t \in AllThreads :
        w[t].pc = "responded" => w[t].status = 200 /\ w[t].body = "received"

\* C3 witness: a request whose attachment count is malformed was answered 200.
C3_Witness ==
    /\ w[1].pc = "responded"
    /\ IntRaises(w[1].req.count)
    /\ w[1].exc = "ValueError"
    /\ w[1].status = 200

\* A record as the Structurer's validation lets it through
Validated(d) ==
    /\ d.t = "dict"
    /\ d.amount.t \in {"int", "float", "bool"}
    /\ SpecNonEmpty(d.vendor)
    /\ SpecNonEmpty(d.category)

RowWellFormed(row) ==
    /\ row.amount.t = "float"
    /\ SpecNonEmpty(row.vendor)
    /\ SpecNonEmpty(row.category)

\* C5: the Ledger Writer is called only with a record that passed the Structurer's
\* validation; on "not an expense" no row is appended and the processing completes
\* without error; every row has a numeric amount and non-empty vendor and category.
C5_OnlyValidatedRecordsLogged ==
    /\ \A i \in 1..Len(ledger) : RowWellFormed(ledger[i])
    /\ \A t \in AllThreads :
          /\ w[t].log # "not called" => Validated(w[t].parsed)
          /\ (w[t].pc = "responded" /\ w[t].called /\ w[t].parsed = PyNone) =>
                /\ w[t].log = "not called"
                /\ Len(ledger) = w[t].rows0
                /\ w[t].exc = "none"
                /\ w[t].status = 200
    /\ Polling =>
          /\ im.m.log # "not called" => Validated(im.m.parsed)
          /\ (PipelineRan /\ im.m.called /\ im.m.parsed = PyNone) =>
                /\ im.m.log = "not called"
                /\ Len(ledger) = im.m.rows0
                /\ im.exc = "none"
                /\ Seen(im.m.cur)

\* C5 witness: a plain-text request the model answered with null fields was
\* acknowledged with nothing appended, after an earlier request had appended a row.
C5_Witness ==
    /\ w[1].pc = "responded"
    /\ w[1].fed = TextPlain
    /\ w[1].calls = 1
    /\ w[1].parsed = PyNone
    /\ w[1].log = "not called"
    /\ Len(ledger) = 1
    /\ w[1].rows0 = 1

\* The reference selection: the OCR text of the first image attachment if it is
\* non-empty, else the plain body if non-empty, else the HTML body
ImageIndexes(atts) == {i \in 1..Len(atts) : atts[i].maintype = "image"}
ReferenceText(atts, plain, html) ==
    LET idx == ImageIndexes(atts)
        first == CHOOSE i \in idx : \A j \in idx : i <= j
        ocr == IF idx = {} \/ atts[first].content = "corrupt" THEN <<>>
               ELSE image_to_string(atts[first].content)
    IN  IF ocr # <<>> THEN ocr ELSE IF plain # <<>> THEN plain ELSE html

\* C9: in both adapters the text fed to the Structurer is the reference selection of
\* the message (attachments that could not be written to /tmp set aside).
C9_FedTextIsReference ==
    /\ \A t \in AllThreads :
          w[t].called =>
              w[t].fed = ReferenceText(w[t].req.atts, w[t].req.text, w[t].req.html)
    /\ (Polling /\ im.pc = "pipeline" /\ im.m.input_text # <<>> /\ im.m.saves = "ok") =>
          LET msg == mailbox[im.m.cur].content IN
          im.m.input_text = ReferenceText(msg.atts, msg.plain, msg.html)

(***************************************************************************)
(* Claims about log_to_google_sheet, under SpecLog                         *)
(***************************************************************************)
LedgerUntouched == Len(ledger) = lOut.rows0
RowAppended == Len(ledger) = lOut.rows0 + 1

\* C11: log_to_google_sheet never raises; an invalid credential file, a spreadsheet
\* that is not found and an append error each give False with the sheet as it was,
\* True is returned exactly when a row was appended, and a call makes at most one
\* append attempt.
C11_LedgerWriterNeverRaises ==
    lOut.done =>
        /\ lOut.r.raised = "none"
        /\ lOut.r.appends <= 1
        /\ (lEnv.creds = "invalid" \/ lEnv.open = "not_found" \/ lEnv.append = "error")
              => (~lOut.r.ret /\ LedgerUntouched)
        /\ lOut.r.ret <=> RowAppended
        /\ ~lOut.r.ret => LedgerUntouched

\* C11 witness: with valid credentials and the sheet found, the one append attempt of
\* a valid record failed and the call returned False.
C11_Witness ==
    /\ lOut.done
    /\ lData = CoffeeRecord
    /\ lEnv = SheetEnv("ok", "ok", "error")
    /\ lOut.r.appends = 1
    /\ ~lOut.r.ret
    /\ lOut.r.raised = "none"
    /\ LedgerUntouched

\* C12: with the credential path unset the call returns False before any
\* authentication, open or append call, and the sheet is unchanged.
C12_UnsetCredentialsNoCalls ==
    (lOut.done /\ lEnv.creds = "unset") =>
        /\ ~lOut.r.ret
        /\ lOut.r.auth = 0 /\ lOut.r.opens = 0 /\ lOut.r.appends = 0
        /\ LedgerUntouched
        /\ lOut.r.raised = "none"

\* C12 witness: a valid record, a sheet service that would have accepted the row, the
\* credential path unset: False, no call made, the rows as before.
C12_Witness ==
    /\ lOut.done
    /\ lEnv = SheetEnv("unset", "ok", "ok")
    /\ lData = CoffeeRecord
    /\ ledger = <<CoffeeRow>>
    /\ ~lOut.r.ret
    /\ lOut.r.auth = 0

(***************************************************************************)
(* Claims about the temporary files and the attachments, under Spec        *)
(***************************************************************************)
FileGone(path) == path = NoPath \/ files[path] = NoFile

\* The poller has finished the finally block of the message im.m.cur
MessageEnded == Polling /\ im.m.cur # 0 /\ im.pc \in {"fetch", "outer_finally"}
                    /\ (im.m.ran \/ im.exc # "none")

\* C13: in both adapters every temporary image file written while a message was
\* processed is gone when the processing of that message ends, on every path (a
\* failing os.remove and a failing write of an attachment set aside).
C13_TempFilesRemoved ==
    /\ \A t \in AllThreads :
          (w[t].pc = "responded" /\ w[t].removed # "failed") => FileGone(w[t].cleanup_path)
    /\ (MessageEnded /\ im.m.removed # "failed" /\ im.m.saves = "ok") =>
          \A f \in im.m.made : files[f] = NoFile

\* The filename of the first image attachment
FirstImageName(atts) ==
    atts[CHOOSE i \in ImageIndexes(atts) : \A j \in ImageIndexes(atts) : i <= j].filename

\* C18: of several image attachments only the first is written to /tmp and passed to
\* OCR, in both adapters: the only temporary file of a message is the first image's,
\* and a later image never replaces the first image's text (messages with an
\* attachment that could not be written set aside).
C18_OnlyFirstImageProcessed ==
    /\ \A t \in AllThreads :
          w[t].pc \in {"save", "ocr"} => w[t].cleanup_path = FirstImageName(w[t].req.atts)
    /\ (Polling /\ im.pc = "pipeline" /\ mailbox[im.m.cur].content.multipart
           /\ ImageIndexes(mailbox[im.m.cur].content.atts) # {} /\ im.m.saves = "ok") =>
          LET msg == mailbox[im.m.cur].content IN
          /\ im.m.made = {FirstImageName(msg.atts)}
          /\ im.m.cleanup_path = FirstImageName(msg.atts)
          /\ im.m.input_text = ReferenceText(msg.atts, msg.plain, msg.html)

\* C19: when neither OCR nor the plain body nor the HTML body gives any text, the
\* run ends without parse_expense_with_ai being called and without a row appended, in
\* both adapters.
C19_NoTextNoStructurerCall ==
    /\ \A t \in AllThreads :
          (w[t].pc = "responded" /\ w[t].exc = "none" /\ w[t].input_text = <<>>) =>
              /\ ~w[t].called
              /\ w[t].log = "not called"
              /\ Len(ledger) = w[t].rows0
    /\ (PipelineRan /\ im.m.input_text = <<>>) =>
          /\ ~im.m.called
          /\ im.m.log = "not called"
          /\ Len(ledger) = im.m.rows0

\* The run appended exactly one row, the row of its record, after the rows it found
AppendedOwnRow(rows0, parsed) ==
    /\ Len(ledger) = rows0 + 1
    /\ ledger[Len(ledger)] = new_row(parsed, today)

\* C17: there is no deduplication: every run whose record the Ledger Writer accepted
\* has grown the ledger by exactly one row, also when the ledger already holds the
\* same row from an earlier run on the same content; two such runs give two rows.
C17_NoDeduplication ==
    /\ \A t \in AllThreads :
          (w[t].pc = "responded" /\ w[t].log = "true") =>
              AppendedOwnRow(w[t].rows0, w[t].parsed)
    /\ (PipelineRan /\ im.m.log = "true") => AppendedOwnRow(im.m.rows0, im.m.parsed)

\* C17 witness: the second of two requests with the same record was logged, and the
\* ledger holds the same row twice.
C17_Witness ==
    /\ served = 2
    /\ w[1].pc = "responded"
    /\ w[1].parsed = CoffeeRecord
    /\ w[1].log = "true"
    /\ w[1].rows0 = 1
    /\ ledger = <<CoffeeRow, CoffeeRow>>

(***************************************************************************)
(* Claims about concurrent webhook requests, under SpecConc                *)
(***************************************************************************)
\* C14: two requests handled at the same time do not affect each other: the file a
\* request passes to OCR holds the image that request saved, and the text it feeds to
\* the Structurer is the text it feeds when handled alone, also when both requests
\* carry an image of the same filename.
C14_ConcurrentRequestsIndependent ==
    \A t \in AllThreads :
        /\ w[t].pc = "ocr" =>
              files[w[t].cleanup_path] = w[t].req.atts[w[t].image].content
        /\ w[t].called =>
              w[t].fed = ReferenceText(w[t].req.atts, w[t].req.text, w[t].req.html)

(***************************************************************************)
(* Claims about the poll cycles, under Spec                                *)
(***************************************************************************)
\* The step fetches message id for the first time in the running cycle
Attempts(id) == id \notin im.attempted /\ id \in im'.attempted

\* C15: a message the poller has marked \Seen stays \Seen, no later step fetches it
\* and it is never again in the pipeline: a message reaches the mark-seen step at most
\* once over all poll cycles, whatever its ledger write returned.
C15_SeenNeverReprocessed ==
    [][\A id \in MessageIds :
          Seen(id) => /\ Seen(id)'
                      /\ ~Attempts(id)
                      /\ ~(im.m.cur = id /\ im.pc \in {"content", "pipeline"})]_vars

\* C15 witness: message 1 is \Seen with no row in the ledger, and a later cycle's
\* search has found message 2 only and is about to fetch it.
C15_Witness ==
    /\ Polling
    /\ Seen(1)
    /\ ledger = <<>>
    /\ im.pc = "fetch"
    /\ im.searched
    /\ im.found = <<2>>
    /\ im.batch = <<2>>

(***************************************************************************)
(* Claims about the ledger over all runs of both adapters, under Spec      *)
(***************************************************************************)
\* The columns of a ledger row, in the order of the list app.py:121-126 builds
RowColumns == {"date", "amount", "vendor", "category"}

\* The step leaves every row of the ledger where it was
KeepsRows ==
    /\ Len(ledger') >= Len(ledger)
    /\ SubSeq(ledger', 1, Len(ledger)) = ledger

\* C21: the ledger is append-only over every sequence of runs of either adapter: a
\* step that changes the ledger adds exactly one row [processing date, amount, vendor,
\* category] after the last row, so the ledger of a state is a prefix of the ledger of
\* every later state, and no row is changed, removed or moved.
C21_LedgerAppendOnly ==
    [][/\ KeepsRows
       /\ ledger' # ledger =>
             /\ Len(ledger') = Len(ledger) + 1
             /\ DOMAIN ledger'[Len(ledger')] = RowColumns
             /\ ledger'[Len(ledger')].date = str_date(today)]_vars

\* C21 witness: a polled message's row was appended to a ledger that held a different
\* row, and the older row is still the first one.
C21_Witness ==
    /\ PipelineRan
    /\ im.m.log = "true"
    /\ im.m.rows0 = 1
    /\ Len(ledger) = 2
    /\ ledger[1] # ledger[2]
    /\ ledger[2] = new_row(im.m.parsed, today)

(***************************************************************************)
(* Claims about the IMAP connection of a poll cycle, under Spec            *)
(***************************************************************************)
\* process_emails has returned from a cycle in which IMAP4_SSL gave it a connection
CycleEndedConnected == Polling /\ im.pc \in {"returned", "crashed"} /\ im.mail # "None"

\* C23: every poll cycle that opened an IMAP connection has logged out of it when
\* process_emails returns, on every exit path: a login or inbox-select failure, a
\* failed search, an exception in the middle of the batch, and normal completion.
C23_AlwaysLogsOut == CycleEndedConnected => im.mail = "logout"

(***************************************************************************)
(* Claims about the poller running forever, under SpecLive                 *)
(***************************************************************************)
\* C16: process_emails never lets an exception out to the main loop, and after every
\* way a cycle can end (no credentials, connection or login failure, failed search,
\* an exception while a message is handled) the loop sleeps and polls again, forever.
C16_PollingNeverStops ==
    /\ [](im.pc # "crashed")
    /\ []<>(im.pc = "sleep")
    /\ []<>(im.pc = "returned")

\* C16 witness: a cycle that a TypeError ended in the middle of the batch has returned
\* to the main loop.
C16_Witness ==
    /\ im.pc = "returned"
    /\ im.exc = "TypeError"
    /\ im.searched
    /\ im.batch # <<>>

\* The step marks message id \Seen
MarksSeen(id) == ~Seen(id) /\ Seen(id)'

\* C22: the poller marks a message \Seen only in the run of that message's own
\* pipeline, after its content selection, its Structurer call (made whenever there is
\* text) and its Ledger Writer attempt (made whenever there is a record) have returned
\* without raising, the mark being the last call of the run; a fetch never marks a
\* message, and a message whose fetch fails is left unseen, with no pipeline run and
\* no ledger change, while the batch goes on to the message behind it.
C22_SeenOnlyAfterOwnPipeline ==
    [][\A id \in MessageIds :
          /\ MarksSeen(id) =>
                /\ im.pc = "pipeline"
                /\ im.m.cur = id
                /\ im.m.ran
                /\ im.m.input_text # <<>> => im'.m.called
                /\ Truthy(im'.m.parsed) => im'.m.log # "not called"
                /\ im'.exc = "none"
                /\ im'.m.order # <<>>
                /\ im'.m.order[Len(im'.m.order)] = "store"
          /\ Attempts(id) =>
                /\ ~Seen(id)'
                /\ ledger' = ledger
                /\ im'.pc = "fetch" =>
                      /\ ~im'.m.ran
                      /\ im'.exc = "none"
                      /\ im'.batch = Tail(im.batch)]_vars

\* C22 witness: in one cycle the fetch of message 1 failed and left it unseen, and
\* message 2 behind it was structured, logged and then marked \Seen.
C22_Witness ==
    /\ im.pc = "cleanup"
    /\ im.found = <<1, 2>>
    /\ im.attempted = {1, 2}
    /\ ~Seen(1)
    /\ mailbox[1].content = UnknownContent
    /\ im.m.cur = 2
    /\ im.m.order = <<"parse", "log", "store">>
    /\ Seen(2)

\* C20: with mailbox credentials set, every unseen message is eventually marked \Seen
\* or found to be a message whose own processing raises; a message that raises every
\* time does not keep the messages behind it from being processed.
C20_BadMessageBlocksNobody ==
    \A id \in MessageIds :
        (im.creds /\ mailbox[id].state = "unseen")
            ~> (Seen(id) \/ mailbox[id].content = NoSubjectMessage)

====
